---- MODULE Spec2Model ----
(***************************************************************************)
(* calc24: the 24-game solver (solver.js), the expression normalizer       *)
(* (normalizer.js) and the rounds of the normalizer's test.                *)
(*                                                                         *)
(* JavaScript strings are strings, read as sequences of characters (Len,   *)
(* SubSeq, \o), so that formatting, tokenizing, parsing and the string     *)
(* comparisons of the code are computed character by character.            *)
(* JavaScript numbers are                                                  *)
(* modelled as reduced fractions <<numerator, denominator>>, so that the   *)
(* result of '/' is not an integer unless the division is exact.           *)
(***************************************************************************)
EXTENDS Integers, Sequences, FiniteSets, TLC

VARIABLES
    numbers,         \* solver.js: the argument of the solve call
    items,           \* solver.js: the working list of the _search call on the explored branch
    foundSolutions,  \* solver.js: this.foundSolutions, a Set in insertion order
    solutions,       \* solver.js: the list solve returned (uniqueSolutions)
    call,            \* solver.js: the arguments (a, b, op) of the last _tryOp call on the branch
    solved,          \* solve(nums) for every list of four numbers of the model, computed once
    pair,            \* test/normalizer test: the pair { a, b } of the round of testPairs.forEach
    sigA,            \* test/normalizer test: normalizer.normalize(a)
    sigB,            \* test/normalizer test: normalizer.normalize(b)
    normalized,      \* test/normalizer test: how many of the two normalize calls have returned
    canonical,       \* normalizer.js: the local canonical of the last normalize call
    pc,              \* where the observed call stands (generate(), or the dedup loop of solve)
    result,          \* generator.js: the object generate() returned
    unique,          \* solver.js: the local uniqueSolutions of the dedup loop of solve
    seen,            \* solver.js: the local seenSignatures of the dedup loop of solve
    next,            \* solver.js: the index in foundSolutions of the next round of the dedup loop
    thrown,          \* solver.js: the rounds of the dedup loop that ended in the catch block
    roundOrder,      \* solver.js: the order the (i, j) rounds of the top-level call ran in
    currentSolutions,    \* main.js: currentSolutions
    isSolutionsVisible,  \* main.js: isSolutionsVisible
    speechQueue,         \* main.js: speechQueue
    isSpeaking,          \* main.js: isSpeaking
    shouldStopSpeaking,  \* main.js: shouldStopSpeaking
    timers,          \* main.js: the pending setTimeout(speakNumbers) callbacks of initGame, oldest first
    narrations,      \* main.js: the calls of processSpeechQueue and speakSolutions that reached an await
    utterances       \* the browser: the utterances speechSynthesis holds, the one being spoken first

solverVars == <<numbers, items, foundSolutions, solutions, call, solved>>

normVars == <<pair, sigA, sigB, normalized, canonical>>

generatorVars == <<pc, result>>

loopVars == <<unique, seen, next, thrown>>

orderVars == <<roundOrder>>

speechVars ==
    <<currentSolutions, isSolutionsVisible, speechQueue, isSpeaking, shouldStopSpeaking,
      timers, narrations, utterances>>

vars == <<solverVars, normVars, generatorVars, loopVars, orderVars, speechVars>>

-----------------------------------------------------------------------------
(* Bounds of the model *)

\* At most MaxThrows rounds of one dedup loop end in the catch block.
MaxThrows == 2

\* initGame is called at most MaxGames times, the call at the load of the page
\* included.
MaxGames == 2

\* solve is called, and _search is started, with the non-decreasing lists of
\* four numbers of 1..MaxNum, the lists of the repository's tests and the
\* first NumSamples lists of SampleInputs; solve is also called with lists
\* whose length is not 4.
MaxNum == 5
NumSamples == 10

\* normalize is called on expressions of at most three operands taken from the
\* first NumPool numbers of NumberPool, and on the pairs of the repository's
\* test and of ExamplePairs.
NumPool == 2

-----------------------------------------------------------------------------
(* JavaScript strings and numbers *)

Digits == <<"0", "1", "2", "3", "4", "5", "6", "7", "8", "9">>

\* s[k], as a string of one character
CharAt(s, k) == SubSeq(s, k, k)

IsDigit(c) == \E d \in 1..10 : Digits[d] = c

DigitValue(c) == (CHOOSE d \in 1..10 : Digits[d] = c) - 1

Abs(n) == IF n < 0 THEN -n ELSE n

RECURSIVE GCD(_, _)
GCD(a, b) == IF b = 0 THEN a ELSE GCD(b, a % b)

\* n/d divided through by g > 0, with a positive denominator
Reduced(n, d, g) ==
    IF d < 0 THEN <<(-n) \div g, (-d) \div g>> ELSE <<n \div g, d \div g>>

\* A JavaScript number n/d, as a reduced fraction.
Num(n, d) == Reduced(n, d, GCD(Abs(n), Abs(d)))

FromInt(n) == <<n, 1>>

IsInteger(v) == v[2] = 1

NumAdd(a, b) == Num(a[1] * b[2] + b[1] * a[2], a[2] * b[2])
NumSub(a, b) == Num(a[1] * b[2] - b[1] * a[2], a[2] * b[2])
NumMul(a, b) == Num(a[1] * b[1], a[2] * b[2])
\* a / b for b # 0 (the only divisions the code and the claims perform)
NumDiv(a, b) == Num(a[1] * b[2], a[2] * b[1])

\* The integer part of n/d, rounded towards zero.
Trunc(n, d) == LET q == Abs(n) \div Abs(d) IN IF (n < 0) = (d < 0) THEN q ELSE -q

\* The % operator: a - b * trunc(a / b), whose sign is the dividend's.
NumRem(a, b) == NumSub(a, NumMul(b, FromInt(Trunc(a[1] * b[2], a[2] * b[1]))))

\* Number.prototype.toString of a natural number: its decimal digits.
RECURSIVE NatToString(_)
NatToString(n) ==
    IF n < 10 THEN Digits[n + 1]
    ELSE NatToString(n \div 10) \o Digits[(n % 10) + 1]

-----------------------------------------------------------------------------
(* solver.js *)

target == 24

\* Math.abs(value - this.target) < 1e-6, that is |n| * 10^6 < d for the
\* difference n/d (written without the product, which is beyond 32 bits)
HitsTarget(value) ==
    LET diff == NumSub(value, FromInt(target))
    IN  Abs(diff[1]) <= (diff[2] - 1) \div 1000000

\* A Set in insertion order after the calls add(adds[1]), add(adds[2]), ...:
\* each string stands where it was first added.
Seconds(pairs) == [k \in 1..Len(pairs) |-> pairs[k][2]] \o << >>

SetOf(adds) ==
    Seconds(SelectSeq([k \in 1..Len(adds) |-> <<k, adds[k]>>],
                      LAMBDA p : \A j \in 1..(p[1] - 1) : adds[j] # p[2]))

\* numbers.map(n => ({ value: n, expr: n.toString(), prec: 3 }))
initialItems(nums) ==
    [k \in 1..Len(nums) |->
        [value |-> FromInt(nums[k]), expr |-> NatToString(nums[k]), prec |-> 3]]

PRECOF(op) == IF op \in {"+", "-"} THEN 1 ELSE 2

\* A variant of needsParens without the rule for the right operand of - and /
needsParensLeftRule(item, isRight, op) == item.prec < PRECOF(op)

needsParens(item, isRight, op) ==
    \/ item.prec < PRECOF(op)
    \/ /\ item.prec = PRECOF(op)
       /\ isRight
       /\ op \in {"-", "/"}

format(item, isRight, op) ==
    IF needsParens(item, isRight, op)
    THEN "(" \o item.expr \o ")"
    ELSE item.expr

opValue(a, b, op) ==
    CASE op = "+" -> NumAdd(a.value, b.value)
      [] op = "-" -> NumSub(a.value, b.value)
      [] op = "*" -> NumMul(a.value, b.value)
      [] op = "/" -> NumDiv(a.value, b.value)

\* The item _tryOp builds before it recurses.
newItem(a, b, op) ==
    [value |-> opValue(a, b, op),
     expr  |-> format(a, FALSE, op) \o " " \o op \o " " \o format(b, TRUE, op),
     prec  |-> PRECOF(op)]

\* A variant of the division guard without the test of the remainder
divisionGuardNonZero(a, b) == b.value # FromInt(0)

\* Division: ONLY if exact integer division
divisionGuard(a, b) ==
    /\ b.value # FromInt(0)
    /\ NumRem(a.value, b.value) = FromInt(0)

\* A variant of the filter that keeps items[i] in the list
nextItemsBaseKeepsFirst(its, i, j) ==
    SelectSeq([k \in 1..Len(its) |-> <<k, its[k]>>],
              LAMBDA p : p[1] # j)

\* items.filter((_, idx) => idx !== i && idx !== j)
nextItemsBase(its, i, j) ==
    SelectSeq([k \in 1..Len(its) |-> <<k, its[k]>>],
              LAMBDA p : p[1] # i /\ p[1] # j)

baseItemsOf(its, i, j) ==
    LET kept == nextItemsBase(its, i, j)
    IN  [k \in 1..Len(kept) |-> kept[k][2]]

\* The four attempts of one (i, j) round of _search, in the order of the code.
Ops == <<"+", "-", "*", "/">>

opAllowed(a, b, op) == op # "/" \/ divisionGuard(a, b)

\* _search(items), as the sequence of the strings it passes to
\* this.foundSolutions.add, in the order of the calls.
RECURSIVE _search(_)
RECURSIVE searchRounds(_, _, _)
RECURSIVE tryOps(_, _, _, _)

\* _tryOp for the operators Ops[o], Ops[o+1], ... on the pair (a, b)
tryOps(a, b, o, baseItems) ==
    IF o > Len(Ops) THEN <<>>
    ELSE (IF opAllowed(a, b, Ops[o])
          THEN _search(Append(baseItems, newItem(a, b, Ops[o])))
          ELSE <<>>)
         \o tryOps(a, b, o + 1, baseItems)

\* The (i, j) round number k of the double loop of _search, alone
searchRound(its, k) ==
    LET n == Len(its)
        i == (k \div n) + 1
        j == (k % n) + 1
    IN  IF i = j THEN <<>>
        ELSE tryOps(its[i], its[j], 1, baseItemsOf(its, i, j))

\* The rounds lo..hi of the double loop, in order: the rounds up to the
\* middle, then the others.
searchRounds(its, lo, hi) ==
    IF lo > hi THEN <<>>
    ELSE IF lo = hi THEN searchRound(its, lo)
    ELSE searchRounds(its, lo, (lo + hi) \div 2)
         \o searchRounds(its, (lo + hi) \div 2 + 1, hi)

\* A variant of the double loop that skips the rounds with j < i as well
searchPairsUpper(its, k) ==
    LET n == Len(its)
        upperRound(r) ==
            IF (r \div n) >= (r % n) THEN <<>>
            ELSE tryOps(its[(r \div n) + 1], its[(r % n) + 1], 1,
                        baseItemsOf(its, (r \div n) + 1, (r % n) + 1))
        RECURSIVE upperRounds(_, _)
        upperRounds(lo, hi) ==
            IF lo > hi THEN <<>>
            ELSE IF lo = hi THEN upperRound(lo)
            ELSE upperRounds(lo, (lo + hi) \div 2) \o upperRounds((lo + hi) \div 2 + 1, hi)
    IN  upperRounds(k, n * n - 1)

\* The double loop of _search from its k-th (i, j) round on.
searchPairs(its, k) == searchRounds(its, k, Len(its) * Len(its) - 1)

_search(its) ==
    IF Len(its) = 1
    THEN IF HitsTarget(its[1].value) THEN <<its[1].expr>> ELSE <<>>
    ELSE searchPairs(its, 0)

-----------------------------------------------------------------------------
(* normalizer.js *)

\* parseInt of a token that does not start with a digit; NaN.toString() is "NaN".
\* Number literals are never negative, so -1 stands for NaN.
NaN == -1

NaNString == "NaN"

OperatorChars == {"(", ")", "+", "-", "*", "/"}

\* The characters of the strings compared by the code, in the order of their
\* UTF-16 code units (the order of the < operator on strings).
CodeUnitOrder ==
    <<" ", "(", ")", "*", "+", ",", "-", "/",
      "0", "1", "2", "3", "4", "5", "6", "7", "8", "9",
      "N", "P", "S", "a", "d", "m", "o", "r", "u">>

\* The same characters in the order of the default (root) collation used by
\* String.prototype.localeCompare: punctuation, symbols, digits, letters.
CollationOrder ==
    <<" ", "-", ",", "(", ")", "*", "/", "+",
      "0", "1", "2", "3", "4", "5", "6", "7", "8", "9",
      "a", "d", "m", "N", "o", "P", "r", "S", "u">>

Rank(order, c) == CHOOSE k \in 1..Len(order) : order[k] = c

RECURSIVE firstDifference(_, _, _)
firstDifference(a, b, k) ==
    IF k > Len(a) \/ k > Len(b) \/ CharAt(a, k) # CharAt(b, k) THEN k
    ELSE firstDifference(a, b, k + 1)

\* a before b in the lexicographic order of the given character order
lessAt(order, a, b, k) ==
    IF k > Len(b) THEN FALSE
    ELSE IF k > Len(a) THEN TRUE
    ELSE Rank(order, CharAt(a, k)) < Rank(order, CharAt(b, k))

lexLess(order, a, b) == lessAt(order, a, b, firstDifference(a, b, 1))

\* a < b on strings
stringLess(a, b) == lexLess(CodeUnitOrder, a, b)

\* a.localeCompare(b): -1, 0 or 1
localeCompare(a, b) ==
    IF a = b THEN 0
    ELSE IF lexLess(CollationOrder, a, b) THEN -1 ELSE 1

\* The end of the run of digits that starts at position k.
RECURSIVE digitsEnd(_, _)
digitsEnd(expr, k) ==
    IF k < Len(expr) /\ IsDigit(CharAt(expr, k + 1)) THEN digitsEnd(expr, k + 1) ELSE k

\* expr.match(/(\d+|\(|\)|\+|\-|\*|\/)/g) || [], from position k on
RECURSIVE tokenizeFrom(_, _)
tokenizeFrom(expr, k) ==
    IF k > Len(expr) THEN <<>>
    ELSE IF IsDigit(CharAt(expr, k))
    THEN <<SubSeq(expr, k, digitsEnd(expr, k))>> \o tokenizeFrom(expr, digitsEnd(expr, k) + 1)
    ELSE IF CharAt(expr, k) \in OperatorChars
    THEN <<CharAt(expr, k)>> \o tokenizeFrom(expr, k + 1)
    ELSE tokenizeFrom(expr, k + 1)

tokenize(expr) == tokenizeFrom(expr, 1)

\* tokens[cursor], undefined (the empty token) beyond the end; cursor counts from 1
tokenAt(tokens, cursor) ==
    IF cursor \in 1..Len(tokens) THEN tokens[cursor] ELSE ""

RECURSIVE digitsValue(_)
digitsValue(ds) ==
    IF ds = "" THEN 0
    ELSE 10 * digitsValue(SubSeq(ds, 1, Len(ds) - 1)) + DigitValue(CharAt(ds, Len(ds)))

\* parseInt(token, 10) of a token of tokenize (all digits, or one operator
\* character) or of undefined
parseInt(token) ==
    IF token # "" /\ IsDigit(CharAt(token, 1)) THEN digitsValue(token) ELSE NaN

numberNode(v) == [type |-> "number", value |-> v]

binaryNode(op, l, r) == [type |-> "binary", op |-> op, left |-> l, right |-> r]

\* Each parse function returns <<node, cursor>>.
RECURSIVE parseExpression(_, _)
RECURSIVE parseExpressionLoop(_, _, _)
RECURSIVE parseTerm(_, _)
RECURSIVE parseTermLoop(_, _, _)
RECURSIVE parseFactor(_, _)
RECURSIVE termWithRight(_, _, _, _)
RECURSIVE termFromLeft(_, _)
RECURSIVE expressionWithRight(_, _, _, _)
RECURSIVE expressionFromLeft(_, _)

\* cursor++ past the ')' that follows the parsed expression e
skipParen(e) == <<e[1], e[2] + 1>>

parseFactor(tokens, cursor) ==
    IF tokenAt(tokens, cursor) = "("
    THEN skipParen(parseExpression(tokens, cursor + 1))
    ELSE <<numberNode(parseInt(tokenAt(tokens, cursor))), cursor + 1>>

\* left = { type: 'binary', op, left, right }, and the loop goes on after right
termWithRight(tokens, op, left, right) ==
    parseTermLoop(tokens, binaryNode(op, left, right[1]), right[2])

parseTermLoop(tokens, left, cursor) ==
    IF cursor <= Len(tokens) /\ tokens[cursor] \in {"*", "/"}
    THEN termWithRight(tokens, tokens[cursor], left, parseFactor(tokens, cursor + 1))
    ELSE <<left, cursor>>

termFromLeft(tokens, left) == parseTermLoop(tokens, left[1], left[2])

parseTerm(tokens, cursor) == termFromLeft(tokens, parseFactor(tokens, cursor))

expressionWithRight(tokens, op, left, right) ==
    parseExpressionLoop(tokens, binaryNode(op, left, right[1]), right[2])

parseExpressionLoop(tokens, left, cursor) ==
    IF cursor <= Len(tokens) /\ tokens[cursor] \in {"+", "-"}
    THEN expressionWithRight(tokens, tokens[cursor], left, parseTerm(tokens, cursor + 1))
    ELSE <<left, cursor>>

expressionFromLeft(tokens, left) == parseExpressionLoop(tokens, left[1], left[2])

parseExpression(tokens, cursor) == expressionFromLeft(tokens, parseTerm(tokens, cursor))

parse(tokens) == parseExpression(tokens, 1)[1]

\* A variant of flattenSum that takes the two operands as they are
flattenSumOperands(node, currentSign) ==
    IF node.type = "binary" /\ node.op = "+"
    THEN <<[node |-> node.left, sign |-> currentSign],
           [node |-> node.right, sign |-> currentSign]>>
    ELSE IF node.type = "binary" /\ node.op = "-"
    THEN <<[node |-> node.left, sign |-> currentSign],
           [node |-> node.right, sign |-> -currentSign]>>
    ELSE <<[node |-> node, sign |-> currentSign]>>

RECURSIVE flattenSum(_, _)
flattenSum(node, currentSign) ==
    IF node.type = "binary" /\ node.op = "+"
    THEN flattenSum(node.left, currentSign) \o flattenSum(node.right, currentSign)
    ELSE IF node.type = "binary" /\ node.op = "-"
    THEN flattenSum(node.left, currentSign) \o flattenSum(node.right, -currentSign)
    ELSE <<[node |-> node, sign |-> currentSign]>>

RECURSIVE flattenProduct(_, _)
flattenProduct(node, currentInverse) ==
    IF node.type = "binary" /\ node.op = "*"
    THEN flattenProduct(node.left, currentInverse) \o flattenProduct(node.right, currentInverse)
    ELSE IF node.type = "binary" /\ node.op = "/"
    THEN flattenProduct(node.left, currentInverse) \o flattenProduct(node.right, ~currentInverse)
    ELSE <<[node |-> node, inverse |-> currentInverse, sign |-> 1]>>

\* parts.join(',')
RECURSIVE join(_)
join(parts) ==
    IF parts = <<>> THEN ""
    ELSE IF Len(parts) = 1 THEN parts[1]
    ELSE parts[1] \o "," \o join(Tail(parts))

sumNode(terms) == [type |-> "sum", terms |-> terms]

productNode(factors) == [type |-> "product", factors |-> factors]

RECURSIVE serializeNode(_)
serializeNode(node) ==
    IF node.type = "number"
    THEN IF node.value = NaN THEN NaNString ELSE NatToString(node.value)
    ELSE IF node.type = "sum"
    THEN "Sum("
         \o join([k \in 1..Len(node.terms) |->
                    (IF node.terms[k].sign > 0 THEN "+" ELSE "-")
                    \o serializeNode(node.terms[k].node)])
         \o ")"
    ELSE IF node.type = "product"
    THEN "Prod("
         \o join([k \in 1..Len(node.factors) |->
                    (IF node.factors[k].inverse THEN "/" ELSE "*")
                    \o serializeNode(node.factors[k].node)])
         \o ")"
    ELSE ""

\* compareTerms on the strings sA and sB of the nodes of a and b, as "its
\* result is negative"
compareStrings(sA, sB, a, b) ==
    IF stringLess(sA, sB) THEN TRUE
    ELSE IF stringLess(sB, sA) THEN FALSE
    ELSE b.sign - a.sign < 0

\* compareTerms(a, b) < 0
compareTermsBefore(a, b) ==
    compareStrings(serializeNode(a.node), serializeNode(b.node), a, b)

\* A variant comparator that leaves the terms in their order
termBeforeUnsorted(a, b) == FALSE

\* The comparator of normTerms.sort, as "its result is negative".
termBefore(a, b) ==
    IF a.sign # b.sign THEN b.sign - a.sign < 0 ELSE compareTermsBefore(a, b)

\* The comparator of finalFactors.sort, as "its result is negative".
factorBefore(a, b) == localeCompare(serializeNode(a.node), serializeNode(b.node)) < 0

\* The comparator of a sort call gives a negative result on (a, b).
before(comparator, a, b) ==
    IF comparator = "terms" THEN termBefore(a, b) ELSE factorBefore(a, b)

\* Array.prototype.sort (stable) with the comparator of normTerms.sort
\* ("terms") or of finalFactors.sort ("factors"): an element goes after the
\* elements that compare before it and the earlier elements that compare equal.
sort(s, comparator) ==
    LET pos(i) == 1 + Cardinality({j \in 1..Len(s) :
                        \/ before(comparator, s[j], s[i])
                        \/ (~before(comparator, s[i], s[j]) /\ j < i)})
    IN  [p \in 1..Len(s) |-> s[CHOOSE i \in 1..Len(s) : pos(i) = p]] \o << >>

\* A product factor whose canonical node is a two-term sum with one positive and
\* one negative term is replaced by form1 (in both branches of the s1 < s2 test).
normalizedNode(canonNode) ==
    IF canonNode.type = "sum" /\ Len(canonNode.terms) = 2
    THEN LET t1 == canonNode.terms[1]
             t2 == canonNode.terms[2]
             form1 == sumNode(<<[sign |-> 1, node |-> t1.node], [sign |-> -1, node |-> t2.node]>>)
             form2 == sumNode(<<[sign |-> 1, node |-> t2.node], [sign |-> -1, node |-> t1.node]>>)
         IN  IF (t1.sign = 1 /\ t2.sign = -1) \/ (t1.sign = -1 /\ t2.sign = 1)
             THEN IF stringLess(serializeNode(form1), serializeNode(form2))
                  THEN form1
                  ELSE form1
             ELSE canonNode
    ELSE canonNode

\* A variant of finalNode that never swaps
finalNodeAsIs(fnode) == fnode

\* finalFactors: a factor that is a two-term sum has its terms swapped, as a
\* difference, when the first term serializes before the second.
finalNode(fnode) ==
    IF fnode.type = "sum" /\ Len(fnode.terms) = 2
    THEN LET t1 == fnode.terms[1]
             t2 == fnode.terms[2]
         IN  IF stringLess(serializeNode(t1.node), serializeNode(t2.node))
             THEN sumNode(<<[sign |-> 1, node |-> t2.node], [sign |-> -1, node |-> t1.node]>>)
             ELSE fnode
    ELSE fnode

\* A variant of canonicalize that returns the parsed tree
canonicalizeNothing(node) == node

RECURSIVE canonicalize(_)
RECURSIVE normTerms(_)
RECURSIVE normFactors(_)

\* terms.map(t => ({ ...t, node: this.canonicalize(t.node) }))
normTerms(terms) ==
    IF terms = << >> THEN << >>
    ELSE <<[node |-> canonicalize(terms[1].node), sign |-> terms[1].sign]>>
         \o normTerms(Tail(terms))

\* factors.map(f => ({ ...f, node: normalizedNode, factorSign: factorSign }))
normFactors(factors) ==
    IF factors = << >> THEN << >>
    ELSE <<[node |-> normalizedNode(canonicalize(factors[1].node)),
            inverse |-> factors[1].inverse, sign |-> 1, factorSign |-> 1]>>
         \o normFactors(Tail(factors))

\* normFactors.map(f => ({ ...f, node: finalNode }))
RECURSIVE finalFactors(_)
finalFactors(factors) ==
    IF factors = << >> THEN << >>
    ELSE <<[factors[1] EXCEPT !.node = finalNode(factors[1].node)]>>
         \o finalFactors(Tail(factors))

canonicalize(node) ==
    IF node.type = "number" THEN node
    ELSE IF node.op \in {"+", "-"}
    THEN sumNode(sort(normTerms(flattenSum(node, 1)), "terms"))
    ELSE IF node.op \in {"*", "/"}
    THEN productNode(sort(finalFactors(normFactors(flattenProduct(node, FALSE))), "factors"))
    ELSE node

serialize(node) == serializeNode(node)

normalize(expression) == serialize(canonicalize(parse(tokenize(expression))))

\* A variant of the deduplication loop that keeps every string
dedupKeepAll(found, k, uniqueSolutions, seenSignatures) == found

\* A round that pushes sol without looking at seenSignatures
dedupStepAlways(found, k, uniqueSolutions, seenSignatures, sig) ==
    [next |-> k + 1,
     uniqueSolutions |-> Append(uniqueSolutions, found[k]),
     seenSignatures |-> seenSignatures]

\* One round of the deduplication loop of solve, for sol = found[k] and
\* sig = normalizer.normalize(sol): uniqueSolutions and seenSignatures after
\* the try block, and the index of the next round.
dedupStep(found, k, uniqueSolutions, seenSignatures, sig) ==
    IF sig \notin seenSignatures
    THEN [next |-> k + 1,
          uniqueSolutions |-> Append(uniqueSolutions, found[k]),
          seenSignatures |-> seenSignatures \cup {sig}]
    ELSE [next |-> k + 1,
          uniqueSolutions |-> uniqueSolutions,
          seenSignatures |-> seenSignatures]

\* The rounds of the loop from found[state.next] to found[hi], in order, from
\* the locals in state: the rounds up to the middle, then the others from
\* what those left.  normalize raises no exception on any string (match,
\* parseInt and the property reads of parse, canonicalize and serialize all
\* succeed), so the catch branch is never taken.
RECURSIVE dedupUpTo(_, _, _)
dedupUpTo(found, hi, state) ==
    IF state.next > hi THEN state
    ELSE IF state.next = hi
    THEN dedupStep(found, state.next, state.uniqueSolutions, state.seenSignatures,
                   normalize(found[state.next]))
    ELSE dedupUpTo(found, hi, dedupUpTo(found, (state.next + hi) \div 2, state))

\* The deduplication loop of solve over foundSolutions[k..], given the list
\* uniqueSolutions and the Set seenSignatures built so far: the list returned.
dedupFrom(found, k, uniqueSolutions, seenSignatures) ==
    dedupUpTo(found, Len(found),
              [next |-> k,
               uniqueSolutions |-> uniqueSolutions,
               seenSignatures |-> seenSignatures]).uniqueSolutions

\* solve from the deduplication on, given this.foundSolutions after the search
solveFound(found) ==
    [foundSolutions |-> found, uniqueSolutions |-> dedupFrom(found, 1, <<>>, {})]

\* solve(numbers) for a list of four numbers: this.foundSolutions and the
\* list returned.
solve(nums) == solveFound(SetOf(_search(initialItems(nums))))

-----------------------------------------------------------------------------
(* The inputs of solve *)

\* test/verify_solver.js
testCases == <<
    <<4, 6, 1, 1>>, <<1, 1, 1, 1>>, <<3, 3, 8, 8>>, <<1, 2, 3, 4>>, <<10, 10, 4, 4>> >>

SampleInputs == <<
    <<6, 4, 2, 2>>, <<4, 2, 8, 4>>, <<13, 11, 8, 4>>, <<11, 9, 6, 2>>,
    <<13, 13, 13, 13>>, <<12, 12, 12, 12>>, <<5, 5, 5, 1>>, <<2, 3, 4, 13>>,
    <<8, 3, 8, 3>>, <<1, 5, 5, 5>>, <<7, 7, 3, 3>>, <<9, 1, 12, 6>> >>

Range(s) == {s[k] : k \in 1..Len(s)}

Samples == Range(testCases) \cup {SampleInputs[k] : k \in 1..NumSamples}

FourNumbers ==
    Samples \cup {nums \in [1..4 -> 1..MaxNum] : \A k \in 1..3 : nums[k] <= nums[k + 1]}

OtherLengths == {<< >>, <<24>>, <<4, 6>>, <<1, 2, 3, 4, 1>>}

-----------------------------------------------------------------------------
(* Spec: calls of solve on one Solver *)

NoCall == [op |-> ""]

NoPair == [a |-> "", b |-> ""]

NoNode == [type |-> ""]

NoResult == [numbers |-> << >>, solutions |-> << >>]

\* Neither generate() nor the dedup loop is observed step by step.
NoGenerate == pc = "" /\ result = NoResult

\* No dedup loop is observed round by round.
NoLoop == unique = << >> /\ seen = {} /\ next = 0 /\ thrown = {}

\* The rounds of _search run in the order of the code.
NoOrder == roundOrder = << >>

\* The page of main.js is not loaded.
NoSpeech ==
    /\ currentSolutions = << >>
    /\ isSolutionsVisible = FALSE
    /\ speechQueue = << >>
    /\ isSpeaking = FALSE
    /\ shouldStopSpeaking = FALSE
    /\ timers = << >>
    /\ narrations = << >>
    /\ utterances = << >>

Init ==
    /\ numbers = << >>
    /\ items = << >>
    /\ foundSolutions = << >>
    /\ solutions = << >>
    /\ call = NoCall
    /\ solved = [nums \in FourNumbers |-> solve(nums)]
    /\ pair = NoPair
    /\ sigA = ""
    /\ sigB = ""
    /\ normalized = 0
    /\ canonical = NoNode
    /\ NoGenerate
    /\ NoLoop
    /\ NoOrder
    /\ NoSpeech

\* solve(nums) with nums.length !== 4 returns [] and leaves this.foundSolutions.
solveOther(nums) ==
    /\ Len(nums) # 4
    /\ numbers' = nums
    /\ solutions' = << >>
    /\ UNCHANGED <<items, foundSolutions, call, solved>>
    /\ UNCHANGED <<normVars, generatorVars, loopVars, orderVars, speechVars>>

\* A solve that goes on with the Set of the call before
keptSet(old) == old

\* this.foundSolutions = new Set()
newSet(old) == << >>

\* this.foundSolutions and the list returned when the search adds its raw
\* strings to the Set base: those of solved for the empty Set.
solveOn(base, fresh) ==
    IF base = << >> THEN fresh
    ELSE solveFound(SetOf(base \o fresh.foundSolutions))

\* solve(nums) with four numbers; the raw strings of the search are read from
\* solved.
solveFour(nums) ==
    /\ Len(nums) = 4
    /\ numbers' = nums
    /\ foundSolutions' = solveOn(newSet(foundSolutions), solved[nums]).foundSolutions
    /\ solutions' = solveOn(newSet(foundSolutions), solved[nums]).uniqueSolutions
    /\ UNCHANGED <<items, call, solved>>
    /\ UNCHANGED <<normVars, generatorVars, loopVars, orderVars, speechVars>>

Next ==
    \/ \E nums \in FourNumbers : solveFour(nums)
    \/ \E nums \in OtherLengths : solveOther(nums)

Spec == Init /\ [][Next]_vars

-----------------------------------------------------------------------------
(* SpecSearch: one branch of the recursion of _search *)

InitSearch ==
    /\ numbers \in FourNumbers
    /\ items = initialItems(numbers)
    /\ foundSolutions = << >>
    /\ solutions = << >>
    /\ call = NoCall
    /\ solved = << >>
    /\ pair = NoPair
    /\ sigA = ""
    /\ sigB = ""
    /\ normalized = 0
    /\ canonical = NoNode
    /\ NoGenerate
    /\ NoLoop
    /\ NoOrder
    /\ NoSpeech

\* One (i, j) round of the loop of _search reaches _tryOp(a, b, op, base),
\* which recurses into _search on the new list.
tryOp(i, j, op) ==
    /\ Len(items) > 1
    /\ i # j
    /\ opAllowed(items[i], items[j], op)
    /\ items' = Append(baseItemsOf(items, i, j), newItem(items[i], items[j], op))
    /\ call' = [a |-> items[i], b |-> items[j], op |-> op]
    /\ UNCHANGED <<numbers, foundSolutions, solutions, solved>>
    /\ UNCHANGED <<normVars, generatorVars, loopVars, orderVars, speechVars>>

\* The base case of _search
record ==
    /\ Len(items) = 1
    /\ HitsTarget(items[1].value)
    /\ foundSolutions' = SetOf(Append(foundSolutions, items[1].expr))
    /\ UNCHANGED <<numbers, items, solutions, call, solved>>
    /\ UNCHANGED <<normVars, generatorVars, loopVars, orderVars, speechVars>>

NextSearch ==
    \/ \E i \in 1..Len(items), j \in 1..Len(items), op \in Range(Ops) : tryOp(i, j, op)
    \/ record

SpecSearch == InitSearch /\ [][NextSearch]_vars

-----------------------------------------------------------------------------
(* SpecDedup: the dedup loop of solve, round by round *)

\* The lists whose dedup loop is followed round by round
LoopInputs == <<<<10, 10, 4, 4>>, <<13, 11, 8, 4>>, <<12, 12, 12, 12>>>>

\* solve up to the loop: this.foundSolutions is filled by the search,
\* uniqueSolutions = [] and seenSignatures = new Set().
InitDedup ==
    /\ \E nums \in Range(LoopInputs) :
           /\ numbers = nums
           /\ foundSolutions = solve(nums).foundSolutions
    /\ items = << >>
    /\ solutions = << >>
    /\ call = NoCall
    /\ solved = << >>
    /\ pair = NoPair
    /\ sigA = ""
    /\ sigB = ""
    /\ normalized = 0
    /\ canonical = NoNode
    /\ pc = "dedup"
    /\ result = NoResult
    /\ unique = << >>
    /\ seen = {}
    /\ next = 1
    /\ thrown = {}
    /\ NoOrder
    /\ NoSpeech

\* A catch block that warns and drops sol
caughtDropped(uniqueSolutions, sol) == uniqueSolutions

\* The catch block: console.warn(...); uniqueSolutions.push(sol)
caught(uniqueSolutions, sol) == Append(uniqueSolutions, sol)

\* A round of the loop whose normalize call returns
roundReturns ==
    /\ pc = "dedup"
    /\ next <= Len(foundSolutions)
    /\ LET after == dedupStep(foundSolutions, next, unique, seen, normalize(foundSolutions[next]))
       IN  /\ unique' = after.uniqueSolutions
           /\ seen' = after.seenSignatures
    /\ next' = next + 1
    /\ UNCHANGED <<thrown, pc, result>>
    /\ UNCHANGED <<solverVars, normVars, orderVars, speechVars>>

\* A round of the loop whose normalize call raises an exception.  The
\* Normalizer of the repository raises none on a string, so the exception is a
\* failure of the call itself (a Normalizer that throws, an error of the
\* engine); the try block is left before seenSignatures is touched.
roundThrows ==
    /\ pc = "dedup"
    /\ next <= Len(foundSolutions)
    /\ Cardinality(thrown) < MaxThrows
    /\ unique' = caught(unique, foundSolutions[next])
    /\ thrown' = thrown \cup {next}
    /\ next' = next + 1
    /\ UNCHANGED <<seen, pc, result>>
    /\ UNCHANGED <<solverVars, normVars, orderVars, speechVars>>

\* return uniqueSolutions
returnUnique ==
    /\ pc = "dedup"
    /\ next > Len(foundSolutions)
    /\ solutions' = unique
    /\ pc' = "returned"
    /\ UNCHANGED <<numbers, items, foundSolutions, call, solved>>
    /\ UNCHANGED <<result, unique, seen, next, thrown>>
    /\ UNCHANGED <<normVars, orderVars, speechVars>>

NextDedup ==
    \/ roundReturns
    \/ roundThrows
    \/ returnUnique

SpecDedup == InitDedup /\ [][NextDedup]_vars

-----------------------------------------------------------------------------
(* SpecGen: one call of generate() *)

\* Math.floor(Math.random() * 13) + 1, for Math.random() in [u / 13, (u + 1) / 13)
randomNumber(u) == u + 1

RandomNumbers == {randomNumber(u) : u \in 0..12}

\* The lists of four random numbers that the model draws: those of the
\* repository's test and two lists with the largest number
Draws ==
    {nums \in Range(testCases) \cup {<<13, 13, 13, 13>>, <<13, 11, 8, 4>>} :
        \A k \in 1..Len(nums) : nums[k] \in RandomNumbers}

\* A loop condition that is never true
loopNever(sols) == FALSE

\* A loop condition that is always true
loopAlways(sols) == TRUE

\* while (solutions.length === 0)
loopAgain(sols) == Len(sols) = 0

InitGen ==
    /\ numbers = << >>
    /\ items = << >>
    /\ foundSolutions = << >>
    /\ solutions = << >>
    /\ call = NoCall
    /\ solved = [nums \in Draws |-> solve(nums)]
    /\ pair = NoPair
    /\ sigA = ""
    /\ sigB = ""
    /\ normalized = 0
    /\ canonical = NoNode
    /\ pc = "sample"
    /\ result = NoResult
    /\ NoLoop
    /\ NoOrder
    /\ NoSpeech

\* numbers = Array.from({ length: 4 }, ...), and this.solver.solve(numbers)
\* up to the call of _search(initialItems)
sample(nums) ==
    /\ pc = "sample"
    /\ numbers' = nums
    /\ items' = initialItems(nums)
    /\ foundSolutions' = << >>
    /\ solutions' = << >>
    /\ call' = NoCall
    /\ pc' = "solve"
    /\ UNCHANGED <<solved, result>>
    /\ UNCHANGED <<normVars, loopVars, orderVars, speechVars>>

\* One _tryOp call with its recursive _search call, on the branch followed
descend(i, j, op) ==
    /\ pc = "solve"
    /\ Len(items) > 1
    /\ i # j
    /\ opAllowed(items[i], items[j], op)
    /\ items' = Append(baseItemsOf(items, i, j), newItem(items[i], items[j], op))
    /\ UNCHANGED <<numbers, foundSolutions, solutions, call, solved>>
    /\ UNCHANGED <<normVars, generatorVars, loopVars, orderVars, speechVars>>

\* The branch followed has reached a list of one item; solutions = the list
\* that solve returns, read from solved.
solveReturns ==
    /\ pc = "solve"
    /\ Len(items) = 1
    /\ items' = << >>
    /\ foundSolutions' = solved[numbers].foundSolutions
    /\ solutions' = solved[numbers].uniqueSolutions
    /\ pc' = "test"
    /\ UNCHANGED <<numbers, call, solved, result>>
    /\ UNCHANGED <<normVars, loopVars, orderVars, speechVars>>

\* The loop condition holds: the body runs again.
again ==
    /\ pc = "test"
    /\ loopAgain(solutions)
    /\ pc' = "sample"
    /\ UNCHANGED result
    /\ UNCHANGED <<solverVars, normVars, loopVars, orderVars, speechVars>>

\* return { numbers, solutions }
returnGenerated ==
    /\ pc = "test"
    /\ ~loopAgain(solutions)
    /\ result' = [numbers |-> numbers, solutions |-> solutions]
    /\ pc' = "returned"
    /\ UNCHANGED <<solverVars, normVars, loopVars, orderVars, speechVars>>

NextGen ==
    \/ \E nums \in Draws : sample(nums)
    \/ \E i \in 1..Len(items), j \in 1..Len(items), op \in Range(Ops) : descend(i, j, op)
    \/ solveReturns
    \/ again
    \/ returnGenerated

SpecGen == InitGen /\ [][NextGen]_vars

\* The list nums has a solution.
Solvable(nums) == Len(solved[nums].uniqueSolutions) > 0

\* generate() keeps running, and Math.random() is fair: when the loop draws
\* again and again, it draws a list that has a solution at some time.
FairGen ==
    /\ WF_vars(NextGen)
    /\ SF_vars(\E nums \in Draws : Solvable(nums) /\ sample(nums))

SpecGenFair == SpecGen /\ FairGen

-----------------------------------------------------------------------------
(* SpecOrder: solve with the rounds of the top-level _search call in another order *)

\* The lists that solve explores in every order of RoundOrders
OrderInputs == <<<<2, 3, 4, 13>>, <<10, 10, 4, 4>>, <<13, 11, 8, 4>>, <<12, 12, 12, 12>>>>

\* The top-level call has items.length * items.length rounds, numbered from 0
\* in the order of the code; those with i === j do nothing.
RoundCount == 4 * 4

\* The order of the code
codeOrder == [m \in 1..RoundCount |-> m - 1]

\* The orders of the model: the order of the code started at any round and
\* wrapped around, forwards and backwards.
RoundOrders ==
    {[m \in 1..RoundCount |-> (r + m - 1) % RoundCount] : r \in 0..(RoundCount - 1)}
    \cup {[m \in 1..RoundCount |-> (r + RoundCount + 1 - m) % RoundCount] :
              r \in 0..(RoundCount - 1)}

\* What each round of the top-level call adds to this.foundSolutions, in the
\* order of the add calls, for each list of OrderInputs
RoundsOf ==
    [n \in 1..Len(OrderInputs) |->
        [k \in 1..RoundCount |-> searchRound(initialItems(OrderInputs[n]), k - 1) \o << >>]
        \o << >>] \o << >>

\* A search that stops after the first round that found a solution
RECURSIVE exploredAddsFirst(_, _, _)
exploredAddsFirst(roundAdds, ord, m) ==
    IF m > Len(ord) THEN << >>
    ELSE IF roundAdds[ord[m] + 1] # << >> THEN roundAdds[ord[m] + 1]
    ELSE exploredAddsFirst(roundAdds, ord, m + 1)

\* The add calls of the top-level call when its rounds run in the order ord,
\* from the m-th round of ord on
RECURSIVE exploredAdds(_, _, _)
exploredAdds(roundAdds, ord, m) ==
    IF m > Len(ord) THEN << >>
    ELSE roundAdds[ord[m] + 1] \o exploredAdds(roundAdds, ord, m + 1)

\* solve(OrderInputs[n]) with the rounds in the order ord
solveInOrder(n, ord) == solveFound(SetOf(exploredAdds(RoundsOf[n], ord, 1)))

InitOrder ==
    /\ numbers \in Range(OrderInputs)
    /\ items = << >>
    /\ foundSolutions = << >>
    /\ solutions = << >>
    /\ call = NoCall
    /\ solved = [nums \in Range(OrderInputs) |-> solve(nums)]
    /\ pair = NoPair
    /\ sigA = ""
    /\ sigB = ""
    /\ normalized = 0
    /\ canonical = NoNode
    /\ NoGenerate
    /\ NoLoop
    /\ NoOrder
    /\ NoSpeech

\* solve has run with the rounds in the order ord and returned.
explored(returned, ord) ==
    /\ roundOrder' = ord
    /\ foundSolutions' = returned.foundSolutions
    /\ solutions' = returned.uniqueSolutions
    /\ UNCHANGED <<numbers, items, call, solved>>
    /\ UNCHANGED <<normVars, generatorVars, loopVars, speechVars>>

explore(n, ord) ==
    /\ roundOrder = << >>
    /\ numbers = OrderInputs[n]
    /\ explored(solveInOrder(n, ord), ord)

NextOrder == \E n \in 1..Len(OrderInputs), ord \in RoundOrders : explore(n, ord)

SpecOrder == InitOrder /\ [][NextOrder]_vars

-----------------------------------------------------------------------------
(* SpecSpeech: the narration of main.js *)

\* The lists of numbers that generator.generate() returns to initGame in the
\* model: lists of 1..13 with at least one solution.
SpeechInputs == <<<<10, 10, 4, 4>>, <<13, 11, 8, 4>>>>

\* [...currentSolutions].sort(() => Math.random() - 0.5): some order of the list
Shuffles(list) ==
    {[k \in 1..Len(list) |-> list[p[k]]] \o << >> : p \in Permutations(1..Len(list))}

\* convertToSpeakingNumber(num)
convertToSpeakingNumber(num) == NatToString(num)

\* The template literal of speakSolutions: sol followed by the words for
\* "equals 24"
solutionText(sol) == sol \o " = 24"

\* antiRoteTip.textContent
tipText == "tip"

\* A call of processSpeechQueue ("queue") or of speakSolutions ("solutions")
\* that stands at an await: at says which one, left holds the solutions the
\* for loop has not reached, waits holds the speakNumbers timers that were
\* pending when its pause of 1000 ms began.  stopped records that stopSpeech
\* has been called since the call began.
narration(kind, at, left) ==
    [kind |-> kind, at |-> at, left |-> left, waits |-> {}, stopped |-> FALSE]

Pauses == {"pause", "tipPause"}

\* The narration n after its function has returned: its locals are gone.
returned(n) == [n EXCEPT !.at = "done", !.left = << >>, !.waits = {}]

\* The narrations as stopSpeech leaves them: each one began before this call.
stoppedAll(ns) == [t \in 1..Len(ns) |-> [ns[t] EXCEPT !.stopped = TRUE]] \o << >>

\* speechSynthesis.speak(utterance), for the utterance of narration t
spoken(us, t, text) == Append(us, [by |-> t, text |-> text])

\* The timers that have not fired
pendingTimers(ts) == {k \in 1..Len(ts) : ~ts[k].fired}

\* The pause of narration t has ended: the timers set later no longer wait
\* for it.
pauseOver(ts, t) == [k \in 1..Len(ts) |-> [ts[k] EXCEPT !.after = @ \ {t}]] \o << >>

\* setTimeout(() => speakNumbers(numbers), 1000): the pauses that run now (of
\* 300, 500 or 1000 ms) end before this timer fires.
timerOf(nums, ns) ==
    [numbers |-> nums, fired |-> FALSE, after |-> {t \in 1..Len(ns) : ns[t].at \in Pauses}]

\* The page after the initGame() call of its last line.
InitSpeech ==
    /\ numbers = << >>
    /\ items = << >>
    /\ foundSolutions = << >>
    /\ solutions = << >>
    /\ call = NoCall
    /\ solved = [nums \in Range(SpeechInputs) |-> solve(nums)]
    /\ pair = NoPair
    /\ sigA = ""
    /\ sigB = ""
    /\ normalized = 0
    /\ canonical = NoNode
    /\ NoGenerate
    /\ NoLoop
    /\ NoOrder
    /\ \E nums \in Range(SpeechInputs) :
         /\ currentSolutions = solve(nums).uniqueSolutions
         /\ timers = <<timerOf(nums, << >>)>>
    /\ isSolutionsVisible = FALSE
    /\ speechQueue = << >>
    /\ isSpeaking = FALSE
    /\ shouldStopSpeaking = TRUE
    /\ narrations = << >>
    /\ utterances = << >>

\* A click on refreshBtn: initGame() (stopSpeech, generate, resetSolutions and
\* the timer of speakNumbers).
initGame(nums) ==
    /\ Len(timers) < MaxGames
    /\ utterances' = << >>
    /\ speechQueue' = << >>
    /\ isSpeaking' = FALSE
    /\ shouldStopSpeaking' = TRUE
    /\ narrations' = stoppedAll(narrations)
    /\ currentSolutions' = solved[nums].uniqueSolutions
    /\ isSolutionsVisible' = FALSE
    /\ timers' = Append(timers, timerOf(nums, narrations))
    /\ UNCHANGED <<solverVars, normVars, generatorVars, loopVars, orderVars>>

\* The oldest pending timer of initGame fires: speakNumbers(numbers).
\* stopSpeech() and the reset of the flag are followed by four calls of
\* addToSpeechQueue; the first one finds isSpeaking false and starts
\* processSpeechQueue, which shifts the first text and awaits speak; the other
\* three find isSpeaking true and only push.
speakNumbers(k) ==
    /\ k \in pendingTimers(timers)
    /\ \A earlier \in 1..(k - 1) : timers[earlier].fired
    /\ timers[k].after = {}
    /\ timers' = [timers EXCEPT ![k].fired = TRUE]
    /\ shouldStopSpeaking' = FALSE
    /\ isSpeaking' = TRUE
    /\ speechQueue' = [n \in 1..(Len(timers[k].numbers) - 1) |->
                          convertToSpeakingNumber(timers[k].numbers[n + 1])] \o << >>
    /\ narrations' = Append(stoppedAll(narrations), narration("queue", "speaking", << >>))
    /\ utterances' = spoken(<< >>, Len(narrations) + 1,
                            convertToSpeakingNumber(timers[k].numbers[1]))
    /\ UNCHANGED <<currentSolutions, isSolutionsVisible>>
    /\ UNCHANGED <<solverVars, normVars, generatorVars, loopVars, orderVars>>

\* speakSolutions() up to its first await, for the list shuffled
speakSolutions(shuffled) ==
    /\ speechQueue' = << >>
    /\ isSpeaking' = FALSE
    /\ shouldStopSpeaking' = FALSE
    /\ IF shuffled = << >>
       THEN /\ narrations' = Append(stoppedAll(narrations),
                                    [narration("solutions", "tipPause", << >>)
                                        EXCEPT !.waits = pendingTimers(timers)])
            /\ utterances' = << >>
       ELSE /\ narrations' = Append(stoppedAll(narrations),
                                    narration("solutions", "speaking", Tail(shuffled)))
            /\ utterances' = spoken(<< >>, Len(narrations) + 1, solutionText(Head(shuffled)))

\* A click on solveBtn while the solutions are hidden: showSolutions()
showSolutions(shuffled) ==
    /\ ~isSolutionsVisible
    /\ shuffled \in Shuffles(currentSolutions)
    /\ isSolutionsVisible' = TRUE
    /\ speakSolutions(shuffled)
    /\ UNCHANGED <<currentSolutions, timers>>
    /\ UNCHANGED <<solverVars, normVars, generatorVars, loopVars, orderVars>>

\* The utterance of narration t is the one being spoken, or cancel() has
\* removed it: its end or error event can fire.
canResolve(t) ==
    \/ utterances # << >> /\ utterances[1].by = t
    \/ \A u \in 1..Len(utterances) : utterances[u].by # t

\* utterance.onend or utterance.onerror resolves the promise of speak, and
\* the narration goes on to its next await or to its end.
utteranceEnds(t) ==
    /\ narrations[t].at \in {"speaking", "speakingTip"}
    /\ canResolve(t)
    /\ utterances' = IF utterances # << >> /\ utterances[1].by = t
                     THEN Tail(utterances) ELSE utterances
    /\ narrations' =
         [narrations EXCEPT ![t] =
            IF narrations[t].kind = "queue" THEN [@ EXCEPT !.at = "pause"]
            ELSE IF narrations[t].at = "speakingTip" THEN returned(@)
            ELSE IF shouldStopSpeaking THEN returned(@)
            ELSE [@ EXCEPT !.at = "pause"]]
    /\ UNCHANGED <<currentSolutions, isSolutionsVisible, speechQueue, isSpeaking,
                   shouldStopSpeaking, timers>>
    /\ UNCHANGED <<solverVars, normVars, generatorVars, loopVars, orderVars>>

\* The pause of 300 ms of processSpeechQueue ends: the while test, then the
\* next shift and speak, or isSpeaking = false.
queuePauseEnds(t) ==
    /\ narrations[t].kind = "queue"
    /\ narrations[t].at = "pause"
    /\ timers' = pauseOver(timers, t)
    /\ IF speechQueue # << >> /\ ~shouldStopSpeaking
       THEN /\ speechQueue' = Tail(speechQueue)
            /\ utterances' = spoken(utterances, t, Head(speechQueue))
            /\ narrations' = [narrations EXCEPT ![t].at = "speaking"]
            /\ UNCHANGED isSpeaking
       ELSE /\ isSpeaking' = FALSE
            /\ narrations' = [narrations EXCEPT ![t] = returned(@)]
            /\ UNCHANGED <<speechQueue, utterances>>
    /\ UNCHANGED <<currentSolutions, isSolutionsVisible, shouldStopSpeaking>>
    /\ UNCHANGED <<solverVars, normVars, generatorVars, loopVars, orderVars>>

\* The pause of 500 ms of speakSolutions ends: the next round of the for
\* loop, or the test after the loop and the pause of 1000 ms.
solutionsPauseEnds(t) ==
    /\ narrations[t].kind = "solutions"
    /\ narrations[t].at = "pause"
    /\ timers' = pauseOver(timers, t)
    /\ IF shouldStopSpeaking
       THEN /\ narrations' = [narrations EXCEPT ![t] = returned(@)]
            /\ UNCHANGED utterances
       ELSE IF narrations[t].left = << >>
       THEN /\ narrations' = [narrations EXCEPT ![t].at = "tipPause",
                                                ![t].waits = pendingTimers(timers)]
            /\ UNCHANGED utterances
       ELSE /\ narrations' = [narrations EXCEPT ![t].at = "speaking",
                                                ![t].left = Tail(@)]
            /\ utterances' = spoken(utterances, t, solutionText(Head(narrations[t].left)))
    /\ UNCHANGED <<currentSolutions, isSolutionsVisible, speechQueue, isSpeaking,
                   shouldStopSpeaking>>
    /\ UNCHANGED <<solverVars, normVars, generatorVars, loopVars, orderVars>>

\* The pause of 1000 ms before the tip ends, after the speakNumbers timers
\* that were set before it began.
tipPauseEnds(t) ==
    /\ narrations[t].at = "tipPause"
    /\ narrations[t].waits \cap pendingTimers(timers) = {}
    /\ timers' = pauseOver(timers, t)
    /\ IF shouldStopSpeaking
       THEN /\ narrations' = [narrations EXCEPT ![t] = returned(@)]
            /\ UNCHANGED utterances
       ELSE /\ narrations' = [narrations EXCEPT ![t].at = "speakingTip", ![t].waits = {}]
            /\ utterances' = spoken(utterances, t, tipText)
    /\ UNCHANGED <<currentSolutions, isSolutionsVisible, speechQueue, isSpeaking,
                   shouldStopSpeaking>>
    /\ UNCHANGED <<solverVars, normVars, generatorVars, loopVars, orderVars>>

NextSpeech ==
    \/ \E nums \in Range(SpeechInputs) : initGame(nums)
    \/ \E k \in 1..Len(timers) : speakNumbers(k)
    \/ \E shuffled \in Shuffles(currentSolutions) : showSolutions(shuffled)
    \/ \E t \in 1..Len(narrations) : utteranceEnds(t)
    \/ \E t \in 1..Len(narrations) : queuePauseEnds(t)
    \/ \E t \in 1..Len(narrations) : solutionsPauseEnds(t)
    \/ \E t \in 1..Len(narrations) : tipPauseEnds(t)

SpecSpeech == InitSpeech /\ [][NextSpeech]_vars

-----------------------------------------------------------------------------
(* Arithmetic on expressions, for the properties *)

\* The value of a parsed expression in exact arithmetic: <<TRUE, value>>, or
\* <<FALSE, 0>> when it divides by zero or holds a token that is no number.
combine(op, l, r) ==
    IF ~l[1] \/ ~r[1] THEN <<FALSE, FromInt(0)>>
    ELSE CASE op = "+" -> <<TRUE, NumAdd(l[2], r[2])>>
           [] op = "-" -> <<TRUE, NumSub(l[2], r[2])>>
           [] op = "*" -> <<TRUE, NumMul(l[2], r[2])>>
           [] op = "/" -> IF r[2][1] = 0 THEN <<FALSE, FromInt(0)>>
                          ELSE <<TRUE, NumDiv(l[2], r[2])>>

RECURSIVE evaluate(_)
evaluate(node) ==
    IF node.type = "number"
    THEN IF node.value = NaN THEN <<FALSE, FromInt(0)>> ELSE <<TRUE, FromInt(node.value)>>
    ELSE combine(node.op, evaluate(node.left), evaluate(node.right))

\* The string evaluates to the number v.
EvaluatesTo(expr, v) == evaluate(parse(tokenize(expr))) = <<TRUE, v>>

\* x / y on integers when y divides x
ExactQuotients(x, y) ==
    IF y # 0 /\ Abs(x) % Abs(y) = 0
    THEN {IF (x < 0) = (y < 0) THEN Abs(x) \div Abs(y) ELSE -(Abs(x) \div Abs(y))}
    ELSE {}

\* The values of the binary expression trees that use each of the numbers
\* nums[k], k in S, exactly once, with + - * and exact division.
RECURSIVE TreeValues(_, _)
TreeValues(nums, S) ==
    IF Cardinality(S) = 1 THEN {nums[CHOOSE k \in S : TRUE]}
    ELSE UNION {
           UNION { {x + y, x - y, x * y} \cup ExactQuotients(x, y) :
                   x \in TreeValues(nums, A), y \in TreeValues(nums, S \ A) } :
           A \in (SUBSET S) \ {{}, S} }

-----------------------------------------------------------------------------
(* Properties of the search *)

\* C1 (solver soundness): every item of a working list of _search has an
\* expression that evaluates, with standard precedence and left-to-right
\* associativity, to the item's value, and every string added to
\* foundSolutions evaluates to exactly 24.
C1_Soundness ==
    /\ \A k \in 1..Len(items) : EvaluatesTo(items[k].expr, items[k].value)
    /\ \A k \in 1..Len(foundSolutions) : EvaluatesTo(foundSolutions[k], FromInt(target))

\* A solution with a parenthesized right operand has been recorded.
C1_Witness ==
    /\ numbers = <<10, 10, 4, 4>>
    /\ foundSolutions = <<"(10 * 10 - 4) / 4">>

\* C3 (exact division): every value of a working list is an integer; the last
\* _tryOp call was a division only with a non-zero divisor that divides the
\* dividend (zero and negative values included), and its item holds the
\* quotient; where a division is inexact or by zero, the pair (i, j) still
\* goes through + - * and only '/' is left out.
C3_ExactDivision ==
    /\ \A k \in 1..Len(items) : IsInteger(items[k].value)
    /\ call.op = "/" =>
         /\ IsInteger(call.a.value) /\ IsInteger(call.b.value)
         /\ call.b.value[1] # 0
         /\ \E q \in -Abs(call.a.value[1])..Abs(call.a.value[1]) :
               /\ q * call.b.value[1] = call.a.value[1]
               /\ items[Len(items)].value = FromInt(q)
    /\ \A i \in 1..Len(items), j \in 1..Len(items) :
         (i # j /\ (items[j].value[1] = 0
                    \/ ExactQuotients(items[i].value[1], items[j].value[1]) = {})) =>
            /\ ENABLED tryOp(i, j, "+")
            /\ ENABLED tryOp(i, j, "-")
            /\ ENABLED tryOp(i, j, "*")
            /\ ~ENABLED tryOp(i, j, "/")

\* A division with a negative dividend has built an item.
C3_Witness ==
    /\ call.op = "/"
    /\ call.a.value[1] < 0
    /\ items[Len(items)].value[1] < 0

-----------------------------------------------------------------------------
(* Properties of solve *)

\* C2 (solver completeness): solve returns a non-empty list exactly when some
\* binary expression tree over the four inputs, each used once, with + - *
\* and exact division, evaluates to 24; the lists of the tests are solvable
\* or not as the tests say.
C2_Completeness ==
    /\ Len(numbers) = 4 =>
         ((solutions # << >>) <=> (target \in TreeValues(numbers, 1..4)))
    /\ numbers \in {<<1, 2, 3, 4>>, <<10, 10, 4, 4>>, <<4, 6, 1, 1>>} => solutions # << >>
    /\ numbers \in {<<1, 1, 1, 1>>, <<3, 3, 8, 8>>} => solutions = << >>

\* solve has returned solutions for a list that needs an exact division.
C2_Witness ==
    /\ numbers = <<10, 10, 4, 4>>
    /\ solutions # << >>

\* The signatures of the strings of a list, in order.
Signatures(list) == [k \in 1..Len(list) |-> normalize(list[k])] \o << >>

\* C10 (deduplication, first seen wins): every returned string is a raw string
\* of foundSolutions; no two returned strings have the same signature; every
\* signature of a raw string is the signature of a returned string; and the
\* returned string of a signature is the first raw string with it.
FirstSeenWins(raw, out, rawSigs, outSigs) ==
    /\ \A k \in 1..Len(out) : out[k] \in Range(raw)
    /\ \A k \in 1..Len(out), l \in 1..Len(out) : outSigs[k] = outSigs[l] => k = l
    /\ Range(rawSigs) = Range(outSigs)
    /\ \A k \in 1..Len(out) :
           \E j \in 1..Len(raw) :
               /\ raw[j] = out[k]
               /\ \A h \in 1..(j - 1) : rawSigs[h] # outSigs[k]

C10_Dedup ==
    Len(numbers) = 4 =>
        FirstSeenWins(foundSolutions, solutions,
                      Signatures(foundSolutions), Signatures(solutions))

\* solve has merged raw strings and still returns several solutions.
C10_Witness ==
    /\ Len(numbers) = 4
    /\ Len(solutions) >= 2
    /\ Len(solutions) < Len(foundSolutions)

PairwiseDistinct(list) ==
    \A k \in 1..Len(list), l \in 1..Len(list) : list[k] = list[l] => k = l

DedupCount(raw, out, rawSigs) ==
    /\ Len(out) <= Len(raw)
    /\ Len(out) = Len(raw) <=> PairwiseDistinct(rawSigs)

\* C11 (dedup reduces count): the list solve returns for four numbers is at
\* most as long as foundSolutions has raw strings, and exactly as long when,
\* and only when, the signatures of the raw strings are pairwise distinct.
C11_DedupCount ==
    Len(numbers) = 4 =>
        DedupCount(foundSolutions, solutions, Signatures(foundSolutions))

\* solve found raw strings and returned every one of them.  (No list of the
\* model has two raw strings with all signatures distinct: the search always
\* finds a + b with b + a, or a * b with b * a.)
C11_Witness ==
    /\ Len(numbers) = 4
    /\ Len(foundSolutions) >= 1
    /\ Len(solutions) = Len(foundSolutions)

\* C15 (generator result): when generate has returned, numbers is a list of
\* four integers of 1..13, solutions is not empty, and solutions is the list
\* that solve returns for those numbers.
C15_GeneratorResult ==
    pc = "returned" =>
        /\ Len(result.numbers) = 4
        /\ \A k \in 1..4 : result.numbers[k] \in 1..13
        /\ Len(result.solutions) > 0
        /\ result.solutions = solved[result.numbers].uniqueSolutions

\* generate has returned the sample 10, 10, 4, 4 with its one solution.
C15_Witness ==
    /\ pc = "returned"
    /\ result.numbers = <<10, 10, 4, 4>>
    /\ result.solutions = <<"(10 * 10 - 4) / 4">>

\* C17 (branch independence): in whatever order the rounds of the top-level
\* _search call run, solve returns the same set of solution strings as in the
\* order of the code.
C17_BranchIndependence ==
    roundOrder # << >> => Range(solutions) = Range(solved[numbers].uniqueSolutions)

SameSet(list, other) == Range(list) = Range(other)

\* C17 (branch independence), amended: in whatever order the rounds of the
\* top-level _search call run, this.foundSolutions holds the same set of raw
\* strings as in the order of the code, and solve returns as many strings,
\* with the same set of signatures; in the order of the code it returns the
\* list of solve.
C17_OrderIndependentSignatures ==
    roundOrder # << >> =>
        /\ SameSet(foundSolutions, solved[numbers].foundSolutions)
        /\ Len(solutions) = Len(solved[numbers].uniqueSolutions)
        /\ SameSet(Signatures(solutions), Signatures(solved[numbers].uniqueSolutions))
        /\ roundOrder = codeOrder => solutions = solved[numbers].uniqueSolutions

\* solve has run with the rounds in another order than the code's and
\* returned other strings, with the signatures of the code's.
C17_Witness ==
    /\ roundOrder # << >>
    /\ roundOrder # codeOrder
    /\ Range(solutions) # Range(solved[numbers].uniqueSolutions)
    /\ Len(solutions) = Len(solved[numbers].uniqueSolutions)

\* C19 (no state carried between calls): after any sequence of solve calls on
\* one Solver, the list the last call returned is the list a new Solver
\* returns for the same numbers: that of solved for four numbers, the empty
\* list for a list of another length.
C19_NoCarriedState ==
    /\ Len(numbers) = 4 =>
           /\ solutions = solved[numbers].uniqueSolutions
           /\ foundSolutions = solved[numbers].foundSolutions
    /\ Len(numbers) # 4 => solutions = << >>

\* A call with a list of another length has followed a call that found
\* solutions, whose Set is still this.foundSolutions.
C19_Witness ==
    /\ numbers = <<1, 2, 3, 4, 1>>
    /\ foundSolutions # << >>
    /\ solutions = << >>

\* C20 (generator termination): with fair random sampling generate returns
\* at some time; every recursive _search call of a solve call of the loop gets
\* a list exactly one item shorter than its caller's; and the loop repeats
\* only when the sampled numbers have no solution.
C20_GeneratorTermination ==
    /\ <>(pc = "returned")
    /\ [][(pc = "solve" /\ pc' = "solve") => Len(items') = Len(items) - 1]_vars
    /\ [][(pc = "test" /\ pc' = "sample") => ~Solvable(numbers)]_vars

\* generate has returned a sample with several solutions.
C20_Witness ==
    /\ pc = "returned"
    /\ Len(result.solutions) >= 2
    /\ Solvable(result.numbers)

\* C12 (dedup fallback): a raw string whose normalize call raised an exception
\* is in uniqueSolutions, and in the list solve returns; seenSignatures holds
\* the signatures of the other rounds' strings and nothing for it; and the
\* loop has run through all of foundSolutions when solve returns its list,
\* which it can do as soon as the loop is over.
C12_DedupFallback ==
    pc \in {"dedup", "returned"} =>
        /\ thrown \subseteq 1..(next - 1)
        /\ \A h \in thrown : foundSolutions[h] \in Range(unique)
        /\ seen = {normalize(foundSolutions[h]) : h \in (1..(next - 1)) \ thrown}
        /\ (pc = "dedup" /\ next > Len(foundSolutions)) => ENABLED returnUnique
        /\ pc = "returned" =>
               /\ next = Len(foundSolutions) + 1
               /\ solutions = unique
               /\ \A h \in thrown : foundSolutions[h] \in Range(solutions)

\* solve has returned after a round that was not the last ended in the catch block.
C12_Witness ==
    /\ pc = "returned"
    /\ \E h \in thrown : h < Len(foundSolutions)
    /\ Len(solutions) > Cardinality(thrown)

-----------------------------------------------------------------------------
(* Well-formed expressions, and the relations on them that the properties of
   normalize are about *)

NumberPool == <<2, 4, 12, 13>>

Pool == {NumberPool[k] : k \in 1..NumPool}

IsSumOp(node) == node.type = "binary" /\ node.op \in {"+", "-"}

IsProductOp(node) == node.type = "binary" /\ node.op \in {"*", "/"}

\* Neither a sum nor a difference: a number, a product or a quotient
IsSimple(node) == ~IsSumOp(node)

\* The expression trees of one, two and three operands of the pool
Leaves == {numberNode(n) : n \in Pool}

TwoOperands == {binaryNode(op, l, r) : op \in Range(Ops), l \in Leaves, r \in Leaves}

ThreeOperands ==
    {binaryNode(op, l, r) : op \in Range(Ops), l \in TwoOperands, r \in Leaves}
    \cup {binaryNode(op, l, r) : op \in Range(Ops), l \in Leaves, r \in TwoOperands}

\* A tree written with the parentheses that standard precedence and
\* left-to-right associativity require, tokens separated by spaces.
RECURSIVE Written(_)
Enclosed(child, isRight, op) ==
    IF /\ child.type = "binary"
       /\ \/ PRECOF(child.op) < PRECOF(op)
          \/ (PRECOF(child.op) = PRECOF(op) /\ isRight /\ op \in {"-", "/"})
    THEN "(" \o Written(child) \o ")"
    ELSE Written(child)

Written(node) ==
    IF node.type = "number" THEN NatToString(node.value)
    ELSE Enclosed(node.left, FALSE, node.op) \o " " \o node.op \o " "
         \o Enclosed(node.right, TRUE, node.op)

treeOf(expr) == parse(tokenize(expr))

\* The trees of the written expressions, as the parser reads them
PoolTrees == {treeOf(Written(t)) : t \in Leaves \cup TwoOperands \cup ThreeOperands}

Perms(n) == {p \in [1..n -> 1..n] : \A i \in 1..n, j \in 1..n : p[i] = p[j] => i = j}

\* The operands of a chain of * and /, in order, each with its role:
\* "*" for a multiplier (the first operand included), "/" for a divisor.
RECURSIVE chainOperands(_)
chainOperands(node) ==
    IF IsProductOp(node)
    THEN Append(chainOperands(node.left), [role |-> node.op, node |-> node.right])
    ELSE <<[role |-> "*", node |-> node]>>

\* t and u differ at most in the order of the operands of chains of * and /,
\* each operand keeping its role.
RECURSIVE ChainReordered(_, _)
chainsMatch(ct, cu) ==
    /\ Len(ct) = Len(cu)
    /\ \E p \in Perms(Len(ct)) :
          \A k \in 1..Len(ct) :
              /\ ct[k].role = cu[p[k]].role
              /\ ChainReordered(ct[k].node, cu[p[k]].node)

ChainReordered(t, u) ==
    \/ t = u
    \/ /\ IsProductOp(t) /\ IsProductOp(u)
       /\ chainsMatch(chainOperands(t), chainOperands(u))
    \/ /\ IsSumOp(t) /\ IsSumOp(u) /\ t.op = u.op
       /\ ChainReordered(t.left, u.left)
       /\ ChainReordered(t.right, u.right)

\* The signed terms of the chains of + and - of a tree: the sign goes through
\* the right operand of every '-', recursively.
RECURSIVE signedTerms(_, _)
signedTerms(node, sign) ==
    IF IsSumOp(node)
    THEN signedTerms(node.left, sign)
         \o signedTerms(node.right, IF node.op = "-" THEN -sign ELSE sign)
    ELSE <<[sign |-> sign, node |-> node]>>

\* t and u flatten to the same multiset of signed terms (a term that is a
\* product or a quotient having operands that do).
RECURSIVE SameSignedTerms(_, _)
RECURSIVE SameTerm(_, _)
termsMatch(st, su) ==
    /\ Len(st) = Len(su)
    /\ \E p \in Perms(Len(st)) :
          \A k \in 1..Len(st) :
              /\ st[k].sign = su[p[k]].sign
              /\ SameTerm(st[k].node, su[p[k]].node)

SameTerm(x, y) ==
    \/ x = y
    \/ /\ IsProductOp(x) /\ IsProductOp(y) /\ x.op = y.op
       /\ SameSignedTerms(x.left, y.left)
       /\ SameSignedTerms(x.right, y.right)

SameSignedTerms(t, u) == termsMatch(signedTerms(t, 1), signedTerms(u, 1))

\* y is the difference x written the other way round: (A - B) and (B - A)
Flipped(x, y) ==
    /\ x.type = "binary" /\ x.op = "-"
    /\ y = binaryNode("-", x.right, x.left)

\* The same, for A and B that are no sums or differences themselves
FlippedSimple(x, y) == Flipped(x, y) /\ IsSimple(x.left) /\ IsSimple(x.right)

\* x is (A + B) and y is (A - B) or (B - A), for A and B that are no sums
PlusForMinus(x, y) ==
    /\ x.type = "binary" /\ x.op = "+"
    /\ IsSimple(x.left) /\ IsSimple(x.right)
    /\ y \in {binaryNode("-", x.left, x.right), binaryNode("-", x.right, x.left)}

\* The factor g stands for the factor f: how is "flipped", "flipped simple"
\* or "plus for minus".
Changed(how, f, g) ==
    CASE how = "flipped" -> Flipped(f, g)
      [] how = "flipped simple" -> FlippedSimple(f, g)
      [] how = "plus for minus" -> PlusForMinus(f, g)

\* t and u are the same product but for one factor f of t, in whose place u
\* has g with Changed(how, f, g).
RECURSIVE SameProductBut(_, _, _)
SameProductBut(t, u, how) ==
    /\ IsProductOp(t) /\ IsProductOp(u) /\ t.op = u.op
    /\ \/ /\ t.right = u.right
          /\ Changed(how, t.left, u.left) \/ SameProductBut(t.left, u.left, how)
       \/ /\ t.left = u.left
          /\ Changed(how, t.right, u.right) \/ SameProductBut(t.right, u.right, how)

\* The factors of the products of a tree, at any depth
RECURSIVE Factors(_)
Factors(node) ==
    IF node.type = "number" THEN {}
    ELSE Factors(node.left) \cup Factors(node.right)
         \cup (IF IsProductOp(node) THEN {node.left, node.right} ELSE {})

IsSimpleDifference(f) ==
    f.type = "binary" /\ f.op = "-" /\ IsSimple(f.left) /\ IsSimple(f.right)

IsSimpleSum(f) ==
    f.type = "binary" /\ f.op = "+" /\ IsSimple(f.left) /\ IsSimple(f.right)

\* A * (B + C) and A * B + A * C for numbers A, B, C
Distributed(t, u) ==
    /\ t.type = "binary" /\ t.op = "*"
    /\ t.left.type = "number"
    /\ t.right.type = "binary" /\ t.right.op = "+"
    /\ t.right.left.type = "number" /\ t.right.right.type = "number"
    /\ u = binaryNode("+", binaryNode("*", t.left, t.right.left),
                           binaryNode("*", t.left, t.right.right))

Related(t, u) ==
    \/ ChainReordered(t, u)
    \/ SameSignedTerms(t, u)
    \/ SameProductBut(t, u, "flipped")
    \/ SameProductBut(t, u, "plus for minus")

\* s has sub as a substring
Contains(s, sub) ==
    \E k \in 1..(Len(s) - Len(sub) + 1) : SubSeq(s, k, k + Len(sub) - 1) = sub

signatureOf(node) == serialize(canonicalize(node))

\* The serialization of the difference of A and B with A first: "Sum(+A,-B)"
DifferenceString(A, B) == "Sum(+" \o signatureOf(A) \o ",-" \o signatureOf(B) \o ")"

\* "Sum(+A,+B)" with the two terms in the order of the sum's sort
SumString(A, B) ==
    IF stringLess(signatureOf(B), signatureOf(A))
    THEN "Sum(+" \o signatureOf(B) \o ",+" \o signatureOf(A) \o ")"
    ELSE "Sum(+" \o signatureOf(A) \o ",+" \o signatureOf(B) \o ")"

StringMin(x, y) == IF stringLess(y, x) THEN y ELSE x

-----------------------------------------------------------------------------
(* SpecNorm: one round of testPairs.forEach on a pair of expressions *)

\* test/normalizer test
testPairs == <<
    [a |-> "11 + 9 + 6 - 2",      b |-> "11 - (2 - 6 - 9)"],
    [a |-> "(1 + 2) + 3",         b |-> "1 + (2 + 3)"],
    [a |-> "4 * 6",               b |-> "6 * 4"],
    [a |-> "9 + 6 - 2 + 11",      b |-> "11 + 9 + 6 - 2"],
    [a |-> "(4 + 8) * (13 - 11)", b |-> "(13 - 11) * (8 + 4)"],
    [a |-> "4 * (6 + 1)",         b |-> "4 * 6 + 4 * 1"] >>

\* Pairs of expressions of four operands
ExamplePairs == <<
    [a |-> "6 * 4 * 2 / 2",       b |-> "6 * 4 / 2 * 2"],
    [a |-> "(4 + 2) * (8 - 4)",   b |-> "(4 - 2) * (8 + 4)"],
    [a |-> "(13 - 11) * 12",      b |-> "12 * (11 - 13)"],
    [a |-> "(4 * 2 - 6) * 3",     b |-> "(6 - 4 * 2) * 3"],
    [a |-> "12 / (6 / 3 - 1)",    b |-> "12 / (1 - 6 / 3)"],
    [a |-> "(4 - (2 + 1)) * 3",   b |-> "(2 + 1 - 4) * 3"],
    [a |-> "(9 - 1) * (5 - 2)",   b |-> "(1 - 9) * (5 - 2)"],
    [a |-> "3 * 8 / (2 - 1)",     b |-> "8 / (2 - 1) * 3"],
    [a |-> "2 * 3 * 4 * 1",       b |-> "4 * 1 * 3 * 2"],
    [a |-> "13 - 1 + 12 * 1",     b |-> "1 * 12 - 1 + 13"] >>

\* The pairs of different pool expressions that one of the relations holds for
RelatedPairs ==
    {[a |-> Written(p[1]), b |-> Written(p[2])] :
        p \in {q \in PoolTrees \X PoolTrees : q[1] # q[2] /\ Related(q[1], q[2])}}

\* A * (B + C) with A * B + A * C for the numbers of 1..MaxNum
DistributionPairs ==
    {[a |-> NatToString(A) \o " * (" \o NatToString(B) \o " + " \o NatToString(C) \o ")",
      b |-> NatToString(A) \o " * " \o NatToString(B) \o " + "
            \o NatToString(A) \o " * " \o NatToString(C)] :
        A \in 1..MaxNum, B \in 1..MaxNum, C \in 1..MaxNum}

\* Strings that are not arithmetic expressions, each with an expression
MalformedPairs == <<
    [a |-> "abc",      b |-> "7"],
    [a |-> " ",        b |-> "7"],
    [a |-> "x = y",    b |-> "7"],
    [a |-> "",         b |-> "7"],
    [a |-> "1 +",      b |-> "7"],
    [a |-> "* 2",      b |-> "7"],
    [a |-> "(1 + 2",   b |-> "7"],
    [a |-> "1 + * 2",  b |-> "7"],
    [a |-> "1 2",      b |-> "7"],
    [a |-> "1 + 2)",   b |-> "7"],
    [a |-> "()",       b |-> "7"] >>

Pairs ==
    Range(testPairs) \cup Range(ExamplePairs) \cup RelatedPairs \cup DistributionPairs
    \cup Range(MalformedPairs)

InitNorm ==
    /\ numbers = << >>
    /\ items = << >>
    /\ foundSolutions = << >>
    /\ solutions = << >>
    /\ call = NoCall
    /\ solved = << >>
    /\ pair \in Pairs
    /\ sigA = ""
    /\ sigB = ""
    /\ normalized = 0
    /\ canonical = NoNode
    /\ NoGenerate
    /\ NoLoop
    /\ NoOrder
    /\ NoSpeech

\* sigA = normalizer.normalize(a)
normalizeA ==
    /\ normalized = 0
    /\ canonical' = canonicalize(parse(tokenize(pair.a)))
    /\ sigA' = serialize(canonical')
    /\ normalized' = 1
    /\ UNCHANGED <<pair, sigB>>
    /\ UNCHANGED <<solverVars, generatorVars, loopVars, orderVars, speechVars>>

\* sigB = normalizer.normalize(b)
normalizeB ==
    /\ normalized = 1
    /\ canonical' = canonicalize(parse(tokenize(pair.b)))
    /\ sigB' = serialize(canonical')
    /\ normalized' = 2
    /\ UNCHANGED <<pair, sigA>>
    /\ UNCHANGED <<solverVars, generatorVars, loopVars, orderVars, speechVars>>

NextNorm ==
    \/ normalizeA
    \/ normalizeB

SpecNorm == InitNorm /\ [][NextNorm]_vars

-----------------------------------------------------------------------------
(* Properties of normalize *)

\* C4 (product commutativity): two expressions that differ only in the order
\* of the operands of a chain of * and /, each operand keeping its role as
\* multiplier or divisor, get the same signature, also when one value is both
\* a multiplier and a divisor of the chain.
C4_ProductCommutativity ==
    (normalized = 2 /\ ChainReordered(treeOf(pair.a), treeOf(pair.b))) => sigA = sigB

\* C5 (sum reordering and sign distribution): two expressions whose chains of
\* + and - flatten to the same multiset of signed terms get the same
\* signature, whatever the order of the terms and the parentheses.
C5_SumReordering ==
    (normalized = 2 /\ SameSignedTerms(treeOf(pair.a), treeOf(pair.b))) => sigA = sigB

\* Both expressions of a pair that distributes a sign through parentheses
\* have been normalized.
C5_Witness ==
    /\ normalized = 2
    /\ pair = [a |-> "11 + 9 + 6 - 2", b |-> "11 - (2 - 6 - 9)"]
    /\ SameSignedTerms(treeOf(pair.a), treeOf(pair.b))
    /\ sigA = "Sum(+11,+6,+9,-2)"
    /\ sigB = sigA

\* C6 (difference orientation), as claimed: a product with the factor (A - B)
\* and the same product with (B - A) in its place get the same signature, for
\* any sub-expressions A and B and wherever the factor stands.
C6_DifferenceOrientation ==
    (normalized = 2 /\ SameProductBut(treeOf(pair.a), treeOf(pair.b), "flipped"))
        => sigA = sigB

\* C6 (difference orientation), amended: a product with the factor (A - B)
\* and the same product with (B - A) in its place get the same signature,
\* wherever the factor stands, when neither A nor B is a sum or a difference
\* itself; and the two expressions of the repository's test get one signature.
C6_SimpleDifferenceOrientation ==
    /\ (normalized = 2 /\ SameProductBut(treeOf(pair.a), treeOf(pair.b), "flipped simple"))
          => sigA = sigB
    /\ (normalized = 2 /\ pair = [a |-> "(4 + 8) * (13 - 11)", b |-> "(13 - 11) * (8 + 4)"])
          => sigA = sigB

\* A difference of a product and a number has been normalized in both
\* orientations, as a factor.
C6_Witness ==
    /\ normalized = 2
    /\ pair = [a |-> "(4 * 2 - 6) * 3", b |-> "(6 - 4 * 2) * 3"]
    /\ SameProductBut(treeOf(pair.a), treeOf(pair.b), "flipped simple")
    /\ sigA = sigB

\* C7 (non-distribution): A * (B + C) and A * B + A * C get different
\* signatures for all numbers A, B and C, and no product of a sum gets the
\* signature of a sum of products.
C7_NonDistribution ==
    /\ (normalized = 2 /\ Distributed(treeOf(pair.a), treeOf(pair.b))) => sigA # sigB
    /\ (normalized = 2 /\ IsProductOp(treeOf(pair.a)) /\ IsSumOp(treeOf(pair.b)))
          => sigA # sigB

\* The factored and the distributed form of the repository's test have been
\* normalized.
C7_Witness ==
    /\ normalized = 2
    /\ pair = [a |-> "4 * (6 + 1)", b |-> "4 * 6 + 4 * 1"]
    /\ Distributed(treeOf(pair.a), treeOf(pair.b))
    /\ sigA # sigB

\* C8 (scope of the orientation): a product factor (A + B) keeps both terms
\* with sign '+' in the signature, and a product with the factor (A + B) and
\* the same product with (A - B) or (B - A) in its place get different
\* signatures.
C8_OrientationScope ==
    /\ normalized >= 1 =>
         \A f \in Factors(treeOf(pair.a)) :
             IsSimpleSum(f) => Contains(sigA, SumString(f.left, f.right))
    /\ (normalized = 2 /\ SameProductBut(treeOf(pair.a), treeOf(pair.b), "plus for minus"))
          => sigA # sigB

\* C9 (orientation choice): for a product factor that is the difference of A
\* and B, the signature holds the lexicographically smaller of "Sum(+A,-B)"
\* and "Sum(+B,-A)".
C9_OrientationChoice ==
    normalized >= 1 =>
        \A f \in Factors(treeOf(pair.a)) :
            IsSimpleDifference(f) =>
                Contains(sigA, StringMin(DifferenceString(f.left, f.right),
                                         DifferenceString(f.right, f.left)))

\* The grammar of the expressions:
\*   Expression := Term (('+' | '-') Term)*
\*   Term       := Factor (('*' | '/') Factor)*
\*   Factor     := NUMBER | '(' Expression ')'
\* Each operator gives the position after the phrase that starts at position
\* c of the tokens ts, or 0 when no such phrase starts there.
RECURSIVE matchExpression(_, _)
RECURSIVE matchExpressionRest(_, _)
RECURSIVE matchTerm(_, _)
RECURSIVE matchTermRest(_, _)
RECURSIVE matchFactor(_, _)

matchClose(ts, c) == IF c # 0 /\ c <= Len(ts) /\ ts[c] = ")" THEN c + 1 ELSE 0

matchFactor(ts, c) ==
    IF c = 0 \/ c > Len(ts) THEN 0
    ELSE IF IsDigit(CharAt(ts[c], 1)) THEN c + 1
    ELSE IF ts[c] = "(" THEN matchClose(ts, matchExpression(ts, c + 1))
    ELSE 0

matchTermRest(ts, c) ==
    IF c = 0 THEN 0
    ELSE IF c <= Len(ts) /\ ts[c] \in {"*", "/"} THEN matchTermRest(ts, matchFactor(ts, c + 1))
    ELSE c

matchTerm(ts, c) == matchTermRest(ts, matchFactor(ts, c))

matchExpressionRest(ts, c) ==
    IF c = 0 THEN 0
    ELSE IF c <= Len(ts) /\ ts[c] \in {"+", "-"} THEN matchExpressionRest(ts, matchTerm(ts, c + 1))
    ELSE c

matchExpression(ts, c) == matchExpressionRest(ts, matchTerm(ts, c))

MatchesGrammar(ts) == matchExpression(ts, 1) = Len(ts) + 1

\* C13 (tokenize failure): the call of normalize on a non-empty string that
\* tokenize finds no token in does not return, and yields no signature.
C13_TokenizeFailure ==
    (pair.a # "" /\ tokenize(pair.a) = << >>) => (normalized = 0 /\ sigA = "")

\* C14 (parse failure): the call of normalize on a string whose tokens do not
\* match the grammar (a missing operand, an unmatched parenthesis, two
\* operators in a row, tokens after a complete expression) does not
\* return, and yields no signature.
C14_ParseFailure ==
    (tokenize(pair.a) # << >> /\ ~MatchesGrammar(tokenize(pair.a)))
        => (normalized = 0 /\ sigA = "")

\* A canonical node written back as an arithmetic expression: the terms of a
\* sum and the factors of a product in canonical order, a term with '+' or
\* '-' for its sign and a factor with '*' or '/' for its inverse flag.  An
\* expression cannot start with '-' or '/', so the first term with sign '+'
\* (the first factor that is not inverse) is written first, and the others
\* follow in canonical order.
RECURSIVE writtenBack(_)
RECURSIVE writtenRest(_, _, _, _)

isLead(entry, type) == IF type = "sum" THEN entry.sign = 1 ELSE ~entry.inverse

leadIndex(entries, type) ==
    IF \E k \in 1..Len(entries) : isLead(entries[k], type)
    THEN CHOOSE k \in 1..Len(entries) :
             /\ isLead(entries[k], type)
             /\ \A h \in 1..(k - 1) : ~isLead(entries[h], type)
    ELSE 0

operatorOf(entry, type) ==
    IF type = "sum" THEN (IF entry.sign = 1 THEN " + " ELSE " - ")
    ELSE (IF entry.inverse THEN " / " ELSE " * ")

writtenOperand(node, type) ==
    IF node.type = "number" \/ (type = "sum" /\ node.type = "product")
    THEN writtenBack(node)
    ELSE "(" \o writtenBack(node) \o ")"

writtenRest(entries, k, lead, type) ==
    IF k > Len(entries) THEN ""
    ELSE IF k = lead THEN writtenRest(entries, k + 1, lead, type)
    ELSE operatorOf(entries[k], type) \o writtenOperand(entries[k].node, type)
         \o writtenRest(entries, k + 1, lead, type)

writtenEntries(entries, lead, type) ==
    IF lead = 0 THEN ""
    ELSE writtenOperand(entries[lead].node, type) \o writtenRest(entries, 1, lead, type)

writtenBack(node) ==
    IF node.type = "number" THEN NatToString(node.value)
    ELSE IF node.type = "sum" THEN writtenEntries(node.terms, leadIndex(node.terms, "sum"), "sum")
    ELSE IF node.type = "product"
    THEN writtenEntries(node.factors, leadIndex(node.factors, "product"), "product")
    ELSE ""

\* The expression of the normalize call that returned last, and its signature
lastExpression == IF normalized = 1 THEN pair.a ELSE pair.b

lastSignature == IF normalized = 1 THEN sigA ELSE sigB

\* C16 (idempotence): for a well-formed expression, the canonical node written
\* back as an expression gets the signature of the expression.
C16_Idempotence ==
    (normalized >= 1 /\ MatchesGrammar(tokenize(lastExpression)))
        => normalize(writtenBack(canonical)) = lastSignature

\* No sum node has a sum node as a term and no product node has a product
\* node as a factor, in node and in every node below it.
RECURSIVE NoDirectNesting(_)
NoDirectNesting(node) ==
    IF node.type = "sum"
    THEN \A k \in 1..Len(node.terms) :
             node.terms[k].node.type # "sum" /\ NoDirectNesting(node.terms[k].node)
    ELSE IF node.type = "product"
    THEN \A k \in 1..Len(node.factors) :
             node.factors[k].node.type # "product" /\ NoDirectNesting(node.factors[k].node)
    ELSE node.type = "number"

\* C18 (nesting of the canonical node): the canonical node of a well-formed
\* expression, as normalize serializes it, has at no depth a sum directly
\* inside a sum or a product directly inside a product.
C18_CanonicalNesting ==
    (normalized >= 1 /\ MatchesGrammar(tokenize(lastExpression)))
        => NoDirectNesting(canonical)

\* A product of a difference whose subtrahend is a sum has been normalized:
\* the inner sum is absorbed into the factor.
C18_Witness ==
    /\ normalized = 1
    /\ pair.a = "(4 - (2 + 1)) * 3"
    /\ sigA = "Prod(*3,*Sum(+4,-1,-2))"
    /\ NoDirectNesting(canonical)

-----------------------------------------------------------------------------
(* Properties of the operands of a branch *)

\* The number literals of an expression string (its maximal runs of digits),
\* as numbers, from left to right.
numberLiterals(expr) ==
    LET digitTokens == SelectSeq(tokenize(expr), LAMBDA t : IsDigit(CharAt(t, 1)))
    IN  [k \in 1..Len(digitTokens) |-> parseInt(digitTokens[k])] \o << >>

\* The binary operators of an expression string, from left to right.
binaryOperators(expr) ==
    SelectSeq(tokenize(expr), LAMBDA t : t \in Range(Ops))

\* How many times v stands in the list s.
Occurrences(s, v) == Cardinality({k \in 1..Len(s) : s[k] = v})

\* The lists a and b hold the same values the same number of times.
SameMultiset(a, b) ==
    /\ Len(a) = Len(b)
    /\ \A v \in Range(a) \cup Range(b) : Occurrences(a, v) = Occurrences(b, v)

\* The literals of all the expressions of a working list, one list after
\* the other.
RECURSIVE literalsOfItems(_)
literalsOfItems(its) ==
    IF its = << >> THEN << >>
    ELSE numberLiterals(its[1].expr) \o literalsOfItems(Tail(its))

RECURSIVE operatorCountOfItems(_)
operatorCountOfItems(its) ==
    IF its = << >> THEN 0
    ELSE Len(binaryOperators(its[1].expr)) + operatorCountOfItems(Tail(its))

\* C21 (each input used exactly once): in every branch of _search the
\* literals of the expressions of the working list are, as a multiset, the
\* four input numbers, and each merge of two items has added one binary
\* operator; so every raw solution string recorded by _search holds exactly
\* four number literals, whose multiset is that of the inputs (repeated
\* values included), and exactly three binary operators.
C21_EachInputOnce ==
    /\ SameMultiset(literalsOfItems(items), numbers)
    /\ operatorCountOfItems(items) = Len(numbers) - Len(items)
    /\ \A k \in 1..Len(foundSolutions) :
         /\ Len(numberLiterals(foundSolutions[k])) = 4
         /\ SameMultiset(numberLiterals(foundSolutions[k]), numbers)
         /\ Len(binaryOperators(foundSolutions[k])) = 3

\* A branch over inputs with a repeated value has recorded its solution.
C21_Witness ==
    /\ \E i \in 1..4, j \in 1..4 : i # j /\ numbers[i] = numbers[j]
    /\ Len(items) = 1
    /\ foundSolutions = <<items[1].expr>>
    /\ SameMultiset(numberLiterals(foundSolutions[1]), numbers)

-----------------------------------------------------------------------------
(* Properties of the narration *)

\* C22 (speech cancellation): once stopSpeech() has been called, no narration
\* that began before the call (a processSpeechQueue loop or a speakSolutions
\* loop) issues another speak() call: every utterance handed to
\* speechSynthesis since the last cancel() comes from a narration that began
\* after the last stopSpeech() call.
C22_SpeechCancellation ==
    \A u \in 1..Len(utterances) : ~narrations[utterances[u].by].stopped

====
